---- MODULE Spec2Model ----
(***************************************************************************)
(* Command resolution and dispatch of the Python terminal:                 *)
(*   - PythonTerminal (src/index.py), the console terminal;                *)
(*   - WebTerminal (src/python_terminal_submission/streamlit_app.py), the  *)
(*     Streamlit terminal with its natural-language resolvers.             *)
(* Command lines are strings, tokenised and classified character by        *)
(* character as the code does; the filesystem is a tree of named entries.  *)
(***************************************************************************)
EXTENDS Integers, Sequences, FiniteSets, TLC

VARIABLES
    fs,                 \* the filesystem: existing path -> [kind, content]
    os_cwd,             \* the process working directory (os.getcwd / os.chdir)
    current_directory,  \* PythonTerminal.current_directory
    prev_directory,     \* PythonTerminal.prev_directory (Unset until the first cd)
    command_history,    \* PythonTerminal.command_history
    appended,           \* every line the console's history append has seen, in order
    web_history,        \* st.session_state.command_history
    web_appended,       \* every line the web history append has seen, in order
    gemini_api_key,     \* whether setup_gemini_ai finds a key (environment)
    HAS_REQUESTS,       \* whether the requests import succeeded
    ai_enabled,         \* WebTerminal.ai_enabled of the current instance
    demoted,            \* a non-success remote response was seen in this session
    raised,             \* the request made by the latest web frame raised an exception
    pending,            \* the resolved command the running execute_command recurses on
    depth,              \* nesting of execute_command frames for the current line
    resolutions,        \* parse_natural_language calls made for the current line
    remote_calls,       \* requests.post calls made in this session
    last,               \* what the last execute_command frame did
    ncmds,              \* lines submitted so far
    terminal_b          \* a second PythonTerminal of the same process: its
                        \* current_directory, prev_directory, command_history

vars == <<fs, os_cwd, current_directory, prev_directory, command_history,
          appended, web_history, web_appended, gemini_api_key, HAS_REQUESTS,
          ai_enabled, demoted, raised, pending, depth, resolutions, remote_calls,
          last, ncmds, terminal_b>>

consoleVars == <<os_cwd, current_directory, prev_directory, command_history, appended>>
webVars == <<web_history, web_appended, gemini_api_key, HAS_REQUESTS, ai_enabled,
             demoted, raised, pending, depth, resolutions, remote_calls>>

(***************************************************************************)
(* Bounds of the model.                                                    *)
(***************************************************************************)
MaxCmds == 3        \* lines submitted to the console terminal in one run
MaxWebCmds == 2     \* lines submitted to the web terminal in one run
PathMax == 4        \* components of the longest path the filesystem holds
MaxDepth == 3       \* nested execute_command frames before RecursionError
MaxAppends == 102   \* lines submitted in one run of the history model
MaxWords == 3       \* the words of a generated natural-language line

(***************************************************************************)
(* Python strings.                                                         *)
(***************************************************************************)
UpperChars == "ABCDEFGHIJKLMNOPQRSTUVWXYZ"
LowerChars == "abcdefghijklmnopqrstuvwxyz"
DQ == "\""
SQ == "'"
Quotes == DQ \o SQ

Char(s, i) == SubSeq(s, i, i)

\* c.lower() for one character
LowerChar(c) ==
    IF \E i \in 1..26 : Char(UpperChars, i) = c
    THEN Char(LowerChars, CHOOSE i \in 1..26 : Char(UpperChars, i) = c)
    ELSE c

\* s.lower()
RECURSIVE Lower(_)
Lower(s) == IF s = "" THEN "" ELSE LowerChar(Head(s)) \o Lower(Tail(s))

\* sub in s
Contains(s, sub) ==
    \E i \in 0..(Len(s) - Len(sub)) : SubSeq(s, i + 1, i + Len(sub)) = sub

\* s.startswith(p)
StartsWith(s, p) == Len(s) >= Len(p) /\ SubSeq(s, 1, Len(p)) = p

\* s.lstrip(cs), s.rstrip(cs), s.strip(cs)
RECURSIVE LStripChars(_, _)
LStripChars(s, cs) ==
    IF s # "" /\ Contains(cs, Head(s)) THEN LStripChars(Tail(s), cs) ELSE s

RECURSIVE RStripChars(_, _)
RStripChars(s, cs) ==
    IF s # "" /\ Contains(cs, Char(s, Len(s)))
    THEN RStripChars(SubSeq(s, 1, Len(s) - 1), cs)
    ELSE s

StripChars(s, cs) == RStripChars(LStripChars(s, cs), cs)

\* s.strip()
Strip(s) == StripChars(s, " ")

\* s.split(sep-char) keeping only non-empty pieces; with sep " " this is s.split()
RECURSIVE SplitAcc(_, _, _)
SplitAcc(s, sep, cur) ==
    IF s = "" THEN (IF cur = "" THEN <<>> ELSE <<cur>>)
    ELSE IF Head(s) = sep
         THEN (IF cur = "" THEN <<>> ELSE <<cur>>) \o SplitAcc(Tail(s), sep, "")
         ELSE SplitAcc(Tail(s), sep, cur \o Head(s))

Split(s) == SplitAcc(s, " ", "")

\* sep.join(words)
RECURSIVE Join(_, _)
Join(words, sep) ==
    IF words = <<>> THEN ""
    ELSE IF Len(words) = 1 THEN words[1]
    ELSE words[1] \o sep \o Join(Tail(words), sep)

\* words.index(w): 0 when absent
IndexOf(words, w) ==
    IF \E i \in 1..Len(words) : words[i] = w
    THEN CHOOSE i \in 1..Len(words) : words[i] = w /\ \A j \in 1..(i - 1) : words[j] # w
    ELSE 0

InList(w, words) == \E i \in 1..Len(words) : words[i] = w

\* any(phrase in s for phrase in phrases)
AnyIn(phrases, s) == \E i \in 1..Len(phrases) : Contains(s, phrases[i])

\* shlex.split(s) for lines without backslashes: whitespace separates tokens,
\* single and double quotes group characters and are dropped, an unclosed
\* quote raises ValueError (ok = FALSE).
RECURSIVE ShlexAcc(_, _, _, _, _)
ShlexAcc(s, acc, cur, intok, q) ==
    IF s = ""
    THEN IF q # "" THEN [ok |-> FALSE, toks |-> <<>>]
         ELSE [ok |-> TRUE, toks |-> IF intok THEN Append(acc, cur) ELSE acc]
    ELSE LET c == Head(s)
             r == Tail(s)
         IN  IF q # ""
             THEN IF c = q THEN ShlexAcc(r, acc, cur, TRUE, "")
                  ELSE ShlexAcc(r, acc, cur \o c, TRUE, q)
             ELSE IF c = SQ \/ c = DQ THEN ShlexAcc(r, acc, cur, TRUE, c)
             ELSE IF c = " "
                  THEN ShlexAcc(r, IF intok THEN Append(acc, cur) ELSE acc, "", FALSE, "")
                  ELSE ShlexAcc(r, acc, cur \o c, TRUE, "")

ShlexSplit(s) == ShlexAcc(s, <<>>, "", FALSE, "")

(***************************************************************************)
(* The filesystem the os / shutil calls act on.  A path is the sequence of *)
(* its components below the root; fs maps every existing path to its node. *)
(* The root always exists and is a directory.                              *)
(***************************************************************************)
Root == <<>>
Home == <<"home">>              \* os.path.expanduser('~')
HomeStr == "/home"
StartDir == <<"home", "w">>     \* os.getcwd() at start; the web session's work_dir
Unset == <<"?">>                \* prev_directory before the attribute is set

\* a node: a directory, or a regular file with its content and the time of
\* its last modification (st_mtime), which the model keeps for files only
DirNode == [kind |-> "dir", content |-> "", mtime |-> 0]
FileNode(c, t) == [kind |-> "file", content |-> c, mtime |-> t]

\* the time at which a command runs: later than every modification made
Now(f) ==
    1 + (CHOOSE t \in {0} \cup {f[p].mtime : p \in DOMAIN f} :
            \A p \in DOMAIN f : f[p].mtime <= t)

Parent(p) == IF p = Root THEN Root ELSE SubSeq(p, 1, Len(p) - 1)
IsPrefix(p, q) == Len(p) <= Len(q) /\ SubSeq(q, 1, Len(p)) = p
ExistsAt(f, p) == p = Root \/ p \in DOMAIN f
IsDirAt(f, p) == p = Root \/ (p \in DOMAIN f /\ f[p].kind = "dir")
IsFileAt(f, p) == p \in DOMAIN f /\ f[p].kind = "file"
Children(f, p) == {q \in DOMAIN f : Len(q) = Len(p) + 1 /\ IsPrefix(p, q)}
Without(f, ps) == [q \in DOMAIN f \ ps |-> f[q]]
With(f, p, node) == [q \in DOMAIN f \cup {p} |-> IF q = p THEN node ELSE f[q]]
Subtree(f, p) == {q \in DOMAIN f : IsPrefix(p, q)}

\* the components of a path string, and whether it is absolute
Comps(name) == SplitAcc(name, "/", "")
IsAbs(name) == StartsWith(name, "/")
LastComp(name) == LET cs == Comps(name) IN IF cs = <<>> THEN "" ELSE cs[Len(cs)]

\* os.path.abspath / normpath on components: lexical removal of "." and ".."
RECURSIVE NormAcc(_, _)
NormAcc(comps, acc) ==
    IF comps = <<>> THEN acc
    ELSE IF Head(comps) = "." THEN NormAcc(Tail(comps), acc)
    ELSE IF Head(comps) = ".." THEN NormAcc(Tail(comps), Parent(acc))
    ELSE NormAcc(Tail(comps), Append(acc, Head(comps)))

NormPath(comps) == NormAcc(comps, Root)

WalkErr(e) == [err |-> e, path |-> Root, live |-> FALSE, dot |-> FALSE]

\* The kernel's path walk from directory `at` (live: it has not been removed).
\* Every component but the last must name an existing directory; the result
\* is the path the last component names, whether it exists (live), and
\* whether it is a directory reached by "." / ".." rather than by a name.
RECURSIVE Walk(_, _, _, _)
Walk(f, at, alive, comps) ==
    IF comps = <<>> THEN [err |-> "", path |-> at, live |-> alive, dot |-> TRUE]
    ELSE LET c == Head(comps)
             rest == Tail(comps)
             child == Append(at, c)
         IN  IF c = "." THEN Walk(f, at, alive, rest)
             ELSE IF c = ".." THEN Walk(f, Parent(at), IsDirAt(f, Parent(at)), rest)
             ELSE IF ~alive THEN WalkErr("NotFound")
             ELSE IF Len(child) > PathMax THEN WalkErr("NameTooLong")
             ELSE IF rest = <<>>
                  THEN [err |-> "", path |-> child, live |-> child \in DOMAIN f, dot |-> FALSE]
             ELSE IF child \notin DOMAIN f THEN WalkErr("NotFound")
             ELSE IF f[child].kind # "dir" THEN WalkErr("NotADirectory")
             ELSE Walk(f, child, TRUE, rest)

\* How the console resolves a name: the os calls of its handlers get the raw
\* argument, so a relative name is resolved against the process directory.
ConsoleResolve(f, cwd, name) ==
    IF name = "" THEN WalkErr("NotFound")
    ELSE IF IsAbs(name) THEN Walk(f, Root, TRUE, Comps(name))
    ELSE Walk(f, cwd.path, ~cwd.deleted, Comps(name))

\* How the web terminal resolves a name: os.path.join(self.current_directory,
\* name), an absolute path, where current_directory is always the work_dir.
WebResolve(f, cwd, name) ==
    IF IsAbs(name) THEN Walk(f, Root, TRUE, Comps(name))
    ELSE Walk(f, Root, TRUE, StartDir \o Comps(name))

Resolve(term, f, cwd, name) ==
    IF term = "web" THEN WebResolve(f, cwd, name) ELSE ConsoleResolve(f, cwd, name)

IsDirRes(f, r) == r.err = "" /\ r.live /\ IsDirAt(f, r.path)
IsFileRes(f, r) == r.err = "" /\ r.live /\ IsFileAt(f, r.path)

Outcome(f, cwd, res, out) == [fs |-> f, cwd |-> cwd, res |-> res, out |-> out]

\* the process directory after the directory at p was removed
CwdAfterRemoval(cwd, p) ==
    IF cwd.path = p /\ ~cwd.deleted THEN [cwd EXCEPT !.deleted = TRUE] ELSE cwd

\* the process directory after the directory src was renamed to dst
CwdAfterRename(cwd, src, dst) ==
    IF IsPrefix(src, cwd.path) /\ ~cwd.deleted
    THEN [cwd EXCEPT !.path = dst \o SubSeq(cwd.path, Len(src) + 1, Len(cwd.path))]
    ELSE cwd

\* os.rmdir(name)
OsRmdir(f, cwd, r, name) ==
    IF r.err # "" THEN Outcome(f, cwd, r.err, "")
    ELSE IF LastComp(name) = "." THEN Outcome(f, cwd, "Invalid", "")
    ELSE IF ~r.live THEN Outcome(f, cwd, "NotFound", "")
    ELSE IF r.path = Root THEN Outcome(f, cwd, "Busy", "")
    ELSE IF f[r.path].kind # "dir" THEN Outcome(f, cwd, "NotADirectory", "")
    ELSE IF Children(f, r.path) # {} \/ r.dot THEN Outcome(f, cwd, "NotEmpty", "")
    ELSE Outcome(Without(f, {r.path}), CwdAfterRemoval(cwd, r.path), "ok", "")

\* os.remove(name) of a regular file
OsRemove(f, cwd, r) ==
    IF IsFileRes(f, r) THEN Outcome(Without(f, {r.path}), cwd, "ok", "")
    ELSE IF IsDirRes(f, r) THEN Outcome(f, cwd, "IsDirectory", "")
    ELSE Outcome(f, cwd, IF r.err # "" THEN r.err ELSE "NotFound", "")

\* shutil.rmtree(path)
RmTree(f, cwd, r) ==
    IF r.path = Root THEN Outcome(f, cwd, "Busy", "")
    ELSE Outcome(Without(f, Subtree(f, r.path)),
                 IF IsPrefix(r.path, cwd.path) /\ ~cwd.deleted
                 THEN [cwd EXCEPT !.deleted = TRUE] ELSE cwd,
                 "ok", "")

\* with open(name, 'a'): pass.  Nothing is written: a file that exists keeps
\* its content and its modification time, an absent one is created now
OpenAppend(f, cwd, r) ==
    IF r.err # "" THEN Outcome(f, cwd, r.err, "")
    ELSE IF r.live THEN Outcome(f, cwd, IF IsDirAt(f, r.path) THEN "IsDirectory" ELSE "ok", "")
    ELSE IF r.dot THEN Outcome(f, cwd, "NotFound", "")
    ELSE Outcome(With(f, r.path, FileNode("", Now(f))), cwd, "ok", "")

\* with open(name, 'w') as fh: fh.write(content), the file modified at time t
OpenWrite(f, cwd, r, content, t) ==
    IF r.err # "" THEN Outcome(f, cwd, r.err, "")
    ELSE IF r.live /\ IsDirAt(f, r.path) THEN Outcome(f, cwd, "IsDirectory", "")
    ELSE IF ~r.live /\ r.dot THEN Outcome(f, cwd, "NotFound", "")
    ELSE Outcome(With(f, r.path, FileNode(content, t)), cwd, "ok", "")

\* with open(name, 'r') as fh: fh.read()
OpenRead(f, cwd, r) ==
    IF r.err # "" THEN Outcome(f, cwd, r.err, "")
    ELSE IF ~r.live THEN Outcome(f, cwd, "NotFound", "")
    ELSE IF IsDirAt(f, r.path) THEN Outcome(f, cwd, "IsDirectory", "")
    ELSE Outcome(f, cwd, "ok", f[r.path].content)

\* os.makedirs(name, exist_ok=True): creates every missing directory on the
\* way; an existing directory at the end is accepted, an existing file is not.
RECURSIVE MakeDirsFrom(_, _, _, _, _)
MakeDirsFrom(f, cwd, at, alive, comps) ==
    IF comps = <<>> THEN Outcome(f, cwd, IF alive THEN "ok" ELSE "NotFound", "")
    ELSE LET c == Head(comps)
             rest == Tail(comps)
             child == Append(at, c)
         IN  IF c = "." THEN MakeDirsFrom(f, cwd, at, alive, rest)
             ELSE IF c = ".." THEN MakeDirsFrom(f, cwd, Parent(at), IsDirAt(f, Parent(at)), rest)
             ELSE IF ~alive THEN Outcome(f, cwd, "NotFound", "")
             ELSE IF Len(child) > PathMax THEN Outcome(f, cwd, "NameTooLong", "")
             ELSE IF child \notin DOMAIN f
                  THEN MakeDirsFrom(With(f, child, DirNode), cwd, child, TRUE, rest)
             ELSE IF f[child].kind # "dir"
                  THEN Outcome(f, cwd, IF rest = <<>> THEN "Exists" ELSE "NotADirectory", "")
             ELSE MakeDirsFrom(f, cwd, child, TRUE, rest)

\* a faulty variant: os.makedirs(name) without exist_ok, which raises
\* FileExistsError when the directory is already there
MakeDirs_not_exist_ok(term, f, cwd, name) ==
    IF IsDirRes(f, Resolve(term, f, cwd, name)) THEN Outcome(f, cwd, "Exists", "")
    ELSE IF term = "web"
    THEN MakeDirsFrom(f, cwd, Root, TRUE,
                      IF IsAbs(name) THEN Comps(name) ELSE StartDir \o Comps(name))
    ELSE IF name = "" THEN Outcome(f, cwd, "NotFound", "")
    ELSE IF IsAbs(name) THEN MakeDirsFrom(f, cwd, Root, TRUE, Comps(name))
    ELSE MakeDirsFrom(f, cwd, cwd.path, ~cwd.deleted, Comps(name))

MakeDirs(term, f, cwd, name) ==
    IF term = "web"
    THEN MakeDirsFrom(f, cwd, Root, TRUE,
                      IF IsAbs(name) THEN Comps(name) ELSE StartDir \o Comps(name))
    ELSE IF name = "" THEN Outcome(f, cwd, "NotFound", "")
    ELSE IF IsAbs(name) THEN MakeDirsFrom(f, cwd, Root, TRUE, Comps(name))
    ELSE MakeDirsFrom(f, cwd, cwd.path, ~cwd.deleted, Comps(name))

\* the walk result for the entry called `base` inside the directory dir
ChildRes(f, dir, base) ==
    IF base = "" \/ base = "." \/ base = ".." THEN WalkErr("Exists")
    ELSE IF Len(dir) + 1 > PathMax THEN WalkErr("NameTooLong")
    ELSE [err |-> "", path |-> Append(dir, base),
          live |-> Append(dir, base) \in DOMAIN f, dot |-> FALSE]

\* os.rename(src, dst) as shutil.move uses it, with move's fallbacks folded in:
\* a file replaces a file or takes a free name; a directory takes a free name
\* outside itself, and the process directory follows a renamed directory.
RenameTo(f, cwd, rs, dst) ==
    IF rs.err # "" THEN Outcome(f, cwd, rs.err, "")
    ELSE IF ~rs.live THEN Outcome(f, cwd, "NotFound", "")
    ELSE IF rs.path = Root THEN Outcome(f, cwd, "Busy", "")
    ELSE IF rs.path = dst THEN Outcome(f, cwd, "ok", "")
    ELSE IF f[rs.path].kind = "file"
         THEN Outcome(With(Without(f, {rs.path}), dst, f[rs.path]), cwd, "ok", "")
    ELSE IF IsPrefix(rs.path, dst) THEN Outcome(f, cwd, "Invalid", "")
    ELSE IF dst \in DOMAIN f THEN Outcome(f, cwd, "Exists", "")
    ELSE IF \E q \in Subtree(f, rs.path) :
                Len(dst) + Len(q) - Len(rs.path) > PathMax
         THEN Outcome(f, cwd, "NameTooLong", "")
    ELSE Outcome([q \in (DOMAIN f \ Subtree(f, rs.path))
                        \cup {dst \o SubSeq(m, Len(rs.path) + 1, Len(m)) :
                                 m \in Subtree(f, rs.path)} |->
                     IF q \in DOMAIN f /\ ~IsPrefix(rs.path, q) THEN f[q]
                     ELSE f[rs.path \o SubSeq(q, Len(dst) + 1, Len(q))]],
                 CwdAfterRename(cwd, rs.path, dst), "ok", "")

\* shutil.move, the destination is a directory: move into it under the
\* source's base name, which must be free
MoveInto(f, cwd, rs, real) ==
    IF real.err # "" THEN Outcome(f, cwd, real.err, "")
    ELSE IF real.live THEN Outcome(f, cwd, "Exists", "")
    ELSE RenameTo(f, cwd, rs, real.path)

\* shutil.move(source, dest) on the resolved source rs and destination rd
Move(f, cwd, rs, rd, source) ==
    IF IsDirRes(f, rd)
    THEN IF IsDirRes(f, rs) /\ rs.path = rd.path THEN Outcome(f, cwd, "ok", "")
         ELSE MoveInto(f, cwd, rs, ChildRes(f, rd.path, LastComp(source)))
    ELSE IF rs.err # "" THEN Outcome(f, cwd, rs.err, "")
    ELSE IF ~rs.live THEN Outcome(f, cwd, "NotFound", "")
    ELSE IF rd.err # "" THEN Outcome(f, cwd, rd.err, "")
    ELSE IF rd.dot THEN Outcome(f, cwd, "NotFound", "")
    ELSE RenameTo(f, cwd, rs, rd.path)

\* shutil.copy2 once the target file is known: read the source, write the
\* target, and give it the source's modification time (copystat)
CopyTo(f, cwd, rs, target, read) ==
    IF IsFileRes(f, rs) /\ target.err = "" /\ target.path = rs.path
    THEN Outcome(f, cwd, "SameFile", "")
    ELSE IF read.res # "ok" THEN Outcome(f, cwd, read.res, "")
    ELSE OpenWrite(f, cwd, target, read.out, f[rs.path].mtime)

\* shutil.copy2(source, dest) on the resolved source rs and destination rd
Copy2(f, cwd, rs, rd, source) ==
    CopyTo(f, cwd, rs,
           IF IsDirRes(f, rd) THEN ChildRes(f, rd.path, LastComp(source)) ELSE rd,
           OpenRead(f, cwd, rs))

(***************************************************************************)
(* The handlers' loop bodies, on the resolved target r.                    *)
(***************************************************************************)
\* PythonTerminal.cmd_rmdir: os.rmdir(dir_name)
cmd_rmdir_target(f, cwd, r, dir_name) == OsRmdir(f, cwd, r, dir_name)

\* a faulty variant: rm that removes a directory with everything under it
cmd_rm_target_recursive(f, cwd, r) ==
    IF IsFileRes(f, r) THEN OsRemove(f, cwd, r)
    ELSE IF IsDirRes(f, r) THEN RmTree(f, cwd, r)
    ELSE Outcome(f, cwd, "NotFound", "")

\* PythonTerminal.cmd_rm: only what os.path.isfile accepts is removed
cmd_rm_target(f, cwd, r) ==
    IF IsFileRes(f, r) THEN OsRemove(f, cwd, r)
    ELSE Outcome(f, cwd, "NotFound", "")

\* PythonTerminal.cmd_touch
cmd_touch_target(f, cwd, r) == OpenAppend(f, cwd, r)

\* PythonTerminal.cmd_cat
cmd_cat_target(f, cwd, r) == OpenRead(f, cwd, r)

\* WebTerminal.cmd_touch
web_cmd_touch_target(f, cwd, r) == OpenAppend(f, cwd, r)

\* WebTerminal.cmd_cat
web_cmd_cat_target(f, cwd, r) == OpenRead(f, cwd, r)

\* WebTerminal.cmd_rm
web_cmd_rm_target(f, cwd, r) ==
    IF IsFileRes(f, r) THEN OsRemove(f, cwd, r)
    ELSE IF IsDirRes(f, r) THEN Outcome(f, cwd, "IsDirectory", "")
    ELSE Outcome(f, cwd, "NotFound", "")

\* a faulty variant: rmdir without the os.listdir test, removing the tree
web_cmd_rmdir_target_unchecked(f, cwd, r, dirname) ==
    IF IsDirRes(f, r) THEN RmTree(f, cwd, r)
    ELSE Outcome(f, cwd, "NotFound", "")

\* WebTerminal.cmd_rmdir
web_cmd_rmdir_target(f, cwd, r, dirname) ==
    IF IsDirRes(f, r)
    THEN IF Children(f, r.path) # {} THEN Outcome(f, cwd, "NotEmpty", "")
         ELSE OsRmdir(f, cwd, r, dirname)
    ELSE Outcome(f, cwd, "NotFound", "")

\* WebTerminal.cmd_rmdir_force
web_cmd_rmdir_force_target(f, cwd, r) ==
    IF IsDirRes(f, r) THEN RmTree(f, cwd, r)
    ELSE Outcome(f, cwd, "NotFound", "")

\* the body of a handler's `for name in args` loop; cmd_mkdir of either
\* terminal is os.makedirs(name, exist_ok=True)
Target(op, f, cwd, name) ==
    CASE op = "mkdir" -> MakeDirs("console", f, cwd, name)
      [] op = "rmdir" -> cmd_rmdir_target(f, cwd, ConsoleResolve(f, cwd, name), name)
      [] op = "rm" -> cmd_rm_target(f, cwd, ConsoleResolve(f, cwd, name))
      [] op = "touch" -> cmd_touch_target(f, cwd, ConsoleResolve(f, cwd, name))
      [] op = "cat" -> cmd_cat_target(f, cwd, ConsoleResolve(f, cwd, name))
      [] op = "web mkdir" -> MakeDirs("web", f, cwd, name)
      [] op = "web touch" -> web_cmd_touch_target(f, cwd, WebResolve(f, cwd, name))
      [] op = "web cat" -> web_cmd_cat_target(f, cwd, WebResolve(f, cwd, name))
      [] op = "web rm" -> web_cmd_rm_target(f, cwd, WebResolve(f, cwd, name))
      [] op = "web rmdir" -> web_cmd_rmdir_target(f, cwd, WebResolve(f, cwd, name), name)
      [] op = "web rmdir -r" -> web_cmd_rmdir_force_target(f, cwd, WebResolve(f, cwd, name))

\* `for name in args: try: ... except Exception: ...`: every target is
\* processed in order, on the filesystem its predecessors left, and reports
\* one result
RECURSIVE ForEachTarget(_, _, _, _, _, _)
\* a faulty variant: the loop ends at the first target that fails
ForEachRest_abort(op, o, names, res, out) ==
    IF o.res # "ok" THEN Outcome(o.fs, o.cwd, Append(res, o.res), Append(out, o.out))
    ELSE ForEachTarget(op, o.fs, o.cwd, names, Append(res, o.res), Append(out, o.out))

ForEachRest(op, o, names, res, out) ==
    ForEachTarget(op, o.fs, o.cwd, names, Append(res, o.res), Append(out, o.out))

ForEachTarget(op, f, cwd, names, res, out) ==
    IF names = <<>> THEN Outcome(f, cwd, res, out)
    ELSE ForEachRest(op, Target(op, f, cwd, Head(names)), Tail(names), res, out)

(***************************************************************************)
(* PythonTerminal (src/index.py): the commands.  A frame is what one call  *)
(* of execute_command leaves: the filesystem, the process directory, the   *)
(* terminal's directories, how the line was routed, and one result per     *)
(* target ("ok" or the kind of error printed) with the text printed.       *)
(***************************************************************************)
HistoryLimit == 100

Frame(f, cwd, cur, prev, route, cmd, res, out) ==
    [fs |-> f, cwd |-> cwd, cur |-> cur, prev |-> prev,
     route |-> route, cmd |-> cmd, res |-> res, out |-> out]

\* the frame of a handler whose work left the outcome o
FrameOf(o, cur, prev, cmd) ==
    Frame(o.fs, o.cwd, cur, prev, "builtin", cmd, o.res, o.out)

FrameOfOne(o, cur, prev, cmd) ==
    Frame(o.fs, o.cwd, cur, prev, "builtin", cmd, <<o.res>>, <<>>)

\* the `if not args: print("<cmd>: missing operand"); return` of a handler
MissingOperand(f, cwd, cur, prev, cmd) ==
    Frame(f, cwd, cur, prev, "builtin", cmd, <<"MissingOperand">>, <<>>)

\* a faulty variant: cd without the exists-and-isdir test
cmd_cd_commit_unchecked(f, cwd, cur, prev, target) ==
    Frame(f, [path |-> target, deleted |-> FALSE], target, cur,
          "builtin", "cd", <<"ok">>, <<>>)

\* cmd_cd(path): the directory is committed when target, the absolute path
\* the argument stands for, exists and is a directory
cmd_cd_commit(f, cwd, cur, prev, target) ==
    IF Len(target) <= PathMax /\ IsDirAt(f, target)
    THEN Frame(f, [path |-> target, deleted |-> FALSE], target, cur,
               "builtin", "cd", <<"ok">>, <<>>)
    ELSE Frame(f, cwd, cur, prev, "builtin", "cd", <<"NotFound">>, <<>>)

\* a faulty variant: '-' stands for the current directory, the recorded
\* previous directory is not used
cmd_cd_target_no_prev(cur, prev, path) ==
    IF path = "~" THEN Home
    ELSE IF path = "-" THEN cur
    ELSE IF ~IsAbs(path) THEN NormPath(cur \o Comps(path))
    ELSE NormPath(Comps(path))

\* cmd_cd(path): '~', '-', a relative or an absolute path, made absolute
cmd_cd_target(cur, prev, path) ==
    IF path = "~" THEN Home
    ELSE IF path = "-" THEN (IF prev = Unset THEN cur ELSE prev)
    ELSE IF ~IsAbs(path) THEN NormPath(cur \o Comps(path))
    ELSE NormPath(Comps(path))

cmd_cd(f, cwd, cur, prev, path) ==
    cmd_cd_commit(f, cwd, cur, prev, cmd_cd_target(cur, prev, path))

\* cmd_ls(args) on the resolved directory r
cmd_ls_listing(f, cwd, cur, prev, r) ==
    Frame(f, cwd, cur, prev, "builtin", "ls",
          <<IF r.err # "" \/ ~r.live THEN "NotFound"
            ELSE IF ~IsDirAt(f, r.path) THEN "NotADirectory"
            ELSE "ok">>, <<>>)

cmd_ls(f, cwd, cur, prev, args) ==
    cmd_ls_listing(f, cwd, cur, prev,
                   IF args # <<>> /\ ~StartsWith(args[1], "-")
                   THEN ConsoleResolve(f, cwd, args[1])
                   ELSE Walk(f, Root, TRUE, cur))

\* cmd_mkdir, cmd_rmdir, cmd_rm, cmd_touch, cmd_cat: the missing-operand
\* check, then the loop over the targets
cmd_targets(f, cwd, cur, prev, command, args) ==
    IF args = <<>> THEN MissingOperand(f, cwd, cur, prev, command)
    ELSE FrameOf(ForEachTarget(command, f, cwd, args, <<>>, <<>>), cur, prev, command)

\* cmd_echo(args): prints the joined arguments, whatever they are
cmd_echo(f, cwd, cur, prev, args) ==
    Frame(f, cwd, cur, prev, "builtin", "echo", <<"ok">>, <<Join(args, " ")>>)

cmd_cp(f, cwd, cur, prev, args) ==
    IF Len(args) < 2 THEN MissingOperand(f, cwd, cur, prev, "cp")
    ELSE FrameOfOne(Copy2(f, cwd, ConsoleResolve(f, cwd, args[1]),
                          ConsoleResolve(f, cwd, args[2]), args[1]),
                    cur, prev, "cp")

cmd_mv(f, cwd, cur, prev, args) ==
    IF Len(args) < 2 THEN MissingOperand(f, cwd, cur, prev, "mv")
    ELSE FrameOfOne(Move(f, cwd, ConsoleResolve(f, cwd, args[1]),
                         ConsoleResolve(f, cwd, args[2]), args[1]),
                    cur, prev, "mv")

\* the commands of command_map that only print
InfoCommands == {"exit", "quit", "pwd", "ps", "top", "history", "clear", "cls",
                 "help", "sysinfo", "version", "demo"}

\* command_map[command]() for the lower-cased first token and the other
\* tokens, and the system passthrough for any other name
command_map(f, cwd, cur, prev, command, args) ==
    CASE command = "cd" ->
             cmd_cd(f, cwd, cur, prev, IF args # <<>> THEN args[1] ELSE HomeStr)
      [] command \in {"ls", "dir"} -> cmd_ls(f, cwd, cur, prev, args)
      [] command \in {"mkdir", "rmdir", "rm", "touch", "cat"} ->
             cmd_targets(f, cwd, cur, prev, command, args)
      [] command = "echo" -> cmd_echo(f, cwd, cur, prev, args)
      [] command = "cp" -> cmd_cp(f, cwd, cur, prev, args)
      [] command = "mv" -> cmd_mv(f, cwd, cur, prev, args)
      [] command \in InfoCommands ->
             Frame(f, cwd, cur, prev, "builtin", command, <<"ok">>, <<>>)
      [] OTHER -> Frame(f, cwd, cur, prev, "system", command, <<"system">>, <<>>)

\* execute_command after the history append, on sp = shlex.split(line):
\* a ValueError of shlex is caught and printed
ConsoleTokens(f, cwd, cur, prev, sp) ==
    IF ~sp.ok THEN Frame(f, cwd, cur, prev, "error", "", <<"ValueError">>, <<>>)
    ELSE command_map(f, cwd, cur, prev, Lower(sp.toks[1]), Tail(sp.toks))

ConsoleDispatch(f, cwd, cur, prev, command_line) ==
    ConsoleTokens(f, cwd, cur, prev, ShlexSplit(command_line))

\* self.command_history.append(line); if len > 100: pop(0)
HistoryAppend(h, command_line) ==
    IF Len(h) + 1 > HistoryLimit THEN Tail(Append(h, command_line))
    ELSE Append(h, command_line)

\* what `last` records of a frame
Record(term, command_line, fr) ==
    [term |-> term, line |-> command_line, route |-> fr.route, cmd |-> fr.cmd,
     res |-> fr.res, out |-> fr.out]

NoOp(term, command_line) ==
    [term |-> term, line |-> command_line, route |-> "noop", cmd |-> "",
     res |-> <<>>, out |-> <<>>]

\* the state a console frame leaves
ConsoleCommit(command_line, fr) ==
    /\ command_history' = HistoryAppend(command_history, command_line)
    /\ appended' = Append(appended, command_line)
    /\ fs' = fr.fs
    /\ os_cwd' = fr.cwd
    /\ current_directory' = fr.cur
    /\ prev_directory' = fr.prev
    /\ last' = Record("console", command_line, fr)

\* a faulty variant: the line is put in the history before the test for an
\* empty line
ConsoleRun_append_first(command_line) ==
    IF Strip(command_line) = ""
    THEN /\ last' = NoOp("console", command_line)
         /\ command_history' = HistoryAppend(command_history, command_line)
         /\ appended' = Append(appended, command_line)
         /\ UNCHANGED <<fs, os_cwd, current_directory, prev_directory>>
    ELSE ConsoleCommit(command_line,
                       ConsoleDispatch(fs, os_cwd, current_directory, prev_directory,
                                       command_line))

\* PythonTerminal.execute_command(command_line)
ConsoleRun(command_line) ==
    IF Strip(command_line) = ""
    THEN /\ last' = NoOp("console", command_line)
         /\ UNCHANGED <<fs, consoleVars>>
    ELSE ConsoleCommit(command_line,
                       ConsoleDispatch(fs, os_cwd, current_directory, prev_directory,
                                       command_line))

(***************************************************************************)
(* WebTerminal: the natural-language classifier and the two resolvers.     *)
(* A resolver returns the command string, "" standing for None.            *)
(***************************************************************************)
Min(S) == CHOOSE i \in S : \A j \in S : i <= j

natural_indicators ==
    <<"how", "what", "where", "when", "why", "who", "which",
      "can you", "could you", "please", "i want", "i need", "i would", "i'd",
      "show me", "tell me", "give me", "help me", "find me",
      "create", "make", "build", "generate", "add", "remove", "delete",
      "count", "list", "display", "print", "open", "close",
      "files", "folders", "directories", "project", "items">>

common_words == {"the", "a", "an", "is", "are", "in", "on", "at", "to", "for", "of", "with"}

\* a faulty variant: the classifier without the test for common words
looks_like_natural_language_indicators_only(command) ==
    AnyIn(natural_indicators, Strip(Lower(command)))

\* WebTerminal.looks_like_natural_language(command)
looks_like_natural_language(command) ==
    LET cmd_lower == Strip(Lower(command))
        words == Split(cmd_lower)
    IN  \/ AnyIn(natural_indicators, cmd_lower)
        \/ Len(words) > 2 /\ \E i \in 1..Len(words) : words[i] \in common_words

\* word.strip("\"'")
Unquote(word) == StripChars(word, Quotes)

\* '.' in word and not word.startswith('.')
FilenameLike(word) == Contains(word, ".") /\ ~StartsWith(word, ".")

\* the value of the first iteration of a `for i, word in enumerate(words)` loop
\* that returns or breaks, `none` when no iteration does
FirstHit(hits, val, none) == IF hits = {} THEN none ELSE val[Min(hits)]

\* rule 1 of parse_with_fallback_patterns: a two-word imperative
TwoWordRule(original_words) ==
    LET action == Lower(original_words[1])
        target == original_words[2]
    IN  IF action \in {"delete", "remove", "del"} THEN "rm " \o target
        ELSE IF action \in {"create", "make"} THEN "touch " \o target
        ELSE IF action = "mkdir" THEN "mkdir " \o target
        ELSE IF action = "rmdir" THEN "rmdir " \o target
        ELSE ""

\* rule 3, a folder or directory is named: the rmdir command
DeleteFolderRule(words, original_words) ==
    LET n == Len(words)
        next(i) == Unquote(original_words[i + 1])
        hits == {i \in 1..(n - 1) :
                    \/ words[i] \in {"named", "called"}
                    \/ words[i] \in {"folder", "directory"} /\ next(i) \notin {"named", "called"}}
        val(i) == "rmdir " \o next(i)
    IN  FirstHit(hits, [i \in hits |-> val(i)], "rmdir temp")

\* rule 3, otherwise: the rm command
DeleteFileRule(words, original_words) ==
    LET n == Len(words)
        next(i) == Unquote(original_words[i + 1])
        dotted == {i \in 1..n :
                      /\ FilenameLike(original_words[i])
                      /\ Lower(original_words[i]) \notin {"delete", "remove", "del", "file", "the"}}
        keyed == {i \in 1..(n - 1) :
                     \/ words[i] \in {"named", "called"}
                     \/ words[i] = "file" /\ next(i) \notin {"named", "called"}}
        after == {i \in 1..(n - 1) :
                     /\ words[i] \in {"delete", "remove", "del"}
                     /\ next(i) \notin {"the", "a", "an", "file", "named", "called"}}
        valDotted(i) == "rm " \o Unquote(original_words[i])
        valNext(i) == "rm " \o next(i)
    IN  IF dotted # {} THEN valDotted(Min(dotted))
        ELSE IF keyed # {} THEN valNext(Min(keyed))
        ELSE FirstHit(after, [i \in after |-> valNext(i)], "rm temp.txt")

\* rule 4 with 'file' in the line: the touch command
CreateFileRule(cmd_lower, words, original_words) ==
    LET n == Len(words)
        next(i) == Unquote(original_words[i + 1])
        keyed == {i \in 1..(n - 1) :
                     \/ words[i] \in {"named", "called"}
                     \/ words[i] = "file" /\ Lower(original_words[i + 1]) \notin {"named", "called"}}
        first == FirstHit(keyed, [i \in keyed |-> next(i)], "")
        dotted == {i \in 1..n : FilenameLike(original_words[i])}
        valDotted(i) == Unquote(original_words[i])
        filename == IF first # "" THEN first ELSE FirstHit(dotted, [i \in dotted |-> valDotted(i)], "")
        ext == IF Contains(cmd_lower, "python") THEN ".py"
               ELSE IF Contains(cmd_lower, "txt") \/ Contains(cmd_lower, "text") THEN ".txt"
               ELSE IF Contains(cmd_lower, "html") THEN ".html"
               ELSE IF Contains(cmd_lower, "css") THEN ".css"
               ELSE IF Contains(cmd_lower, "js") \/ Contains(cmd_lower, "javascript") THEN ".js"
               ELSE ".txt"
    IN  IF filename = "" THEN "touch newfile.txt"
        ELSE IF ~Contains(filename, ".") THEN "touch " \o filename \o ext
        ELSE "touch " \o filename

\* rule 4 with 'folder' or 'directory' in the line: the mkdir command
CreateFolderRule(words, original_words) ==
    LET n == Len(words)
        next(i) == Unquote(original_words[i + 1])
        hits == {i \in 1..(n - 1) :
                    \/ words[i] \in {"named", "called"}
                    \/ words[i] \in {"folder", "directory"} /\ Lower(next(i)) \notin {"named", "called"}}
        dirname == FirstHit(hits, [i \in hits |-> next(i)], "")
    IN  IF dirname # "" THEN "mkdir " \o dirname ELSE "mkdir newfolder"

\* rule 5: the redirect-write (or touch) command, "" when no file name is found
WriteRule(original_words) ==
    LET words == original_words
        n == Len(words)
        isToIn(i) == Lower(words[i]) \in {"to", "in"}
        after == {i \in 1..(n - 1) : isToIn(i)}
        next(i) == Unquote(words[i + 1])
        first == FirstHit(after, [i \in after |-> next(i)], "")
        dotted == {i \in 1..n : FilenameLike(words[i])}
        valDotted(i) == Unquote(words[i])
        filename == IF first # "" THEN first ELSE FirstHit(dotted, [i \in dotted |-> valDotted(i)], "")
        stops == {i \in 1..n : isToIn(i)}
        stop == IF stops = {} THEN n + 1 ELSE Min(stops)
        starts == {i \in 1..(stop - 1) : Lower(words[i]) = "write"}
        isContent(w) == Lower(w) # "write"
        content_parts == IF starts = {} THEN <<>>
                         ELSE SelectSeq(SubSeq(words, Min(starts) + 1, stop - 1), isContent)
        content == Unquote(Join(content_parts, " "))
    IN  IF filename = "" THEN ""
        ELSE IF content # "" THEN "echo " \o content \o " > " \o filename
        ELSE "touch " \o filename

\* a faulty variant: the deletion rule is tried before the counting rule
parse_with_fallback_patterns_delete_first(command) ==
    LET cmd_lower == Strip(Lower(command))
        original_words == Split(command)
        words == Split(cmd_lower)
        two == IF Len(original_words) = 2 THEN TwoWordRule(original_words) ELSE ""
        creating == Contains(cmd_lower, "create") \/ Contains(cmd_lower, "make")
        folder == Contains(cmd_lower, "folder") \/ Contains(cmd_lower, "directory")
        written == IF Contains(cmd_lower, "write")
                      /\ (Contains(cmd_lower, "to") \/ Contains(cmd_lower, "in"))
                   THEN WriteRule(original_words) ELSE ""
    IN  IF two # "" THEN two
        ELSE IF AnyIn(<<"delete", "remove", "del">>, cmd_lower)
             THEN IF folder THEN DeleteFolderRule(words, original_words)
                  ELSE DeleteFileRule(words, original_words)
        ELSE IF AnyIn(<<"count", "how many", "number of files", "files count">>, cmd_lower)
             THEN "count"
        ELSE IF creating /\ Contains(cmd_lower, "file")
             THEN CreateFileRule(cmd_lower, words, original_words)
        ELSE IF creating /\ folder THEN CreateFolderRule(words, original_words)
        ELSE IF written # "" THEN written
        ELSE IF AnyIn(<<"show", "list", "what files", "see files", "display files">>, cmd_lower)
             THEN "ls"
        ELSE IF AnyIn(<<"what's here", "what is here", "contents">>, cmd_lower) THEN "ls"
        ELSE ""

\* WebTerminal.parse_with_fallback_patterns(command)
parse_with_fallback_patterns(command) ==
    LET cmd_lower == Strip(Lower(command))
        original_words == Split(command)
        words == Split(cmd_lower)
        two == IF Len(original_words) = 2 THEN TwoWordRule(original_words) ELSE ""
        creating == Contains(cmd_lower, "create") \/ Contains(cmd_lower, "make")
        folder == Contains(cmd_lower, "folder") \/ Contains(cmd_lower, "directory")
        written == IF Contains(cmd_lower, "write")
                      /\ (Contains(cmd_lower, "to") \/ Contains(cmd_lower, "in"))
                   THEN WriteRule(original_words) ELSE ""
    IN  IF two # "" THEN two
        ELSE IF AnyIn(<<"count", "how many", "number of files", "files count">>, cmd_lower)
             THEN "count"
        ELSE IF AnyIn(<<"delete", "remove", "del">>, cmd_lower)
             THEN IF folder THEN DeleteFolderRule(words, original_words)
                  ELSE DeleteFileRule(words, original_words)
        ELSE IF creating /\ Contains(cmd_lower, "file")
             THEN CreateFileRule(cmd_lower, words, original_words)
        ELSE IF creating /\ folder THEN CreateFolderRule(words, original_words)
        ELSE IF written # "" THEN written
        ELSE IF AnyIn(<<"show", "list", "what files", "see files", "display files">>, cmd_lower)
             THEN "ls"
        ELSE IF AnyIn(<<"what's here", "what is here", "contents">>, cmd_lower) THEN "ls"
        ELSE ""

(***************************************************************************)
(* The remote resolver.  What requests.post does is the environment's      *)
(* choice: a 200 response carrying a text, a response with another status, *)
(* or an exception (timeout, transport failure).                           *)
(***************************************************************************)
RemoteReplies == {" ls ", "", "show me the files"}

RemoteOutcomes ==
    {[status |-> "200", text |-> t] : t \in RemoteReplies}
        \cup {[status |-> "non200", text |-> ""], [status |-> "exception", text |-> ""]}

NoReply == [status |-> "none", text |-> ""]

\* WebTerminal.setup_gemini_ai: self.ai_enabled
setup_gemini_ai(key, has_requests) == key /\ has_requests

\* WebTerminal.call_gemini_api(prompt): the text returned ("" for None) and
\* ai_enabled afterwards; only a status other than 200 clears ai_enabled
call_gemini_api(ai, reply) ==
    IF reply.status = "200" THEN [text |-> Strip(reply.text), ai |-> ai]
    ELSE IF reply.status = "non200" THEN [text |-> "", ai |-> FALSE]
    ELSE [text |-> "", ai |-> ai]

\* WebTerminal.parse_with_gemini(command), on what call_gemini_api returned
parse_with_gemini_result(result, reply) ==
    [cmd |-> Strip(result.text), ai |-> result.ai, calls |-> 1,
     status |-> reply.status]

\* a faulty variant: when the remote service yields nothing the deterministic
\* rules are tried for the same line
parse_with_gemini_then_patterns(ai, command, reply) ==
    IF Strip(call_gemini_api(ai, reply).text) = ""
    THEN [cmd |-> parse_with_fallback_patterns(command), ai |-> call_gemini_api(ai, reply).ai,
          calls |-> 1, status |-> reply.status]
    ELSE parse_with_gemini_result(call_gemini_api(ai, reply), reply)

parse_with_gemini(ai, command, reply) ==
    parse_with_gemini_result(call_gemini_api(ai, reply), reply)

\* WebTerminal.parse_natural_language(command)
parse_natural_language(ai, command, reply) ==
    IF ai THEN parse_with_gemini(ai, command, reply)
    ELSE [cmd |-> parse_with_fallback_patterns(command), ai |-> ai, calls |-> 0,
          status |-> "none"]

(***************************************************************************)
(* WebTerminal: the commands.                                              *)
(***************************************************************************)
\* the directory of the Streamlit process, which no handler uses
WebCwd == [path |-> Root, deleted |-> FALSE]

WebFrame(f, route, cmd, res, out, natural_cmd, ai, resolved, calls, status) ==
    [fs |-> f, route |-> route, cmd |-> cmd, res |-> res, out |-> out,
     natural_cmd |-> natural_cmd, ai |-> ai, resolved |-> resolved,
     calls |-> calls, status |-> status]

\* a frame that ran a built-in branch
WebBuiltin(f, ai, cmd, res, out) ==
    WebFrame(f, "builtin", cmd, res, out, "", ai, 0, 0, "none")

\* the frame of a handler whose work left the outcome o
WebFrameOf(o, ai, cmd) == WebBuiltin(o.fs, ai, cmd, o.res, o.out)

WebFrameOfOne(o, ai, cmd) == WebBuiltin(o.fs, ai, cmd, <<o.res>>, <<>>)

\* cmd_mkdir, cmd_touch, cmd_cat, cmd_rm, cmd_rmdir, cmd_rmdir_force: the loop
WebTargets(op, cmd, f, ai, names) ==
    WebFrameOf(ForEachTarget(op, f, WebCwd, names, <<>>, <<>>), ai, cmd)

\* WebTerminal.cmd_echo(args), the redirect at redirect_index
web_cmd_echo_write(f, ai, args, redirect_index) ==
    WebFrameOfOne(OpenWrite(f, WebCwd,
                            WebResolve(f, WebCwd,
                                       IF redirect_index + 1 <= Len(args)
                                       THEN args[redirect_index + 1] ELSE "output.txt"),
                            Join(SubSeq(args, 1, redirect_index - 1), " "), Now(f)),
                  ai, "echo")

\* WebTerminal.cmd_echo(args)
web_cmd_echo(f, ai, args) ==
    IF Len(args) < 3 \/ ~InList(">", args)
    THEN WebBuiltin(f, ai, "echo", <<"ok">>, <<Join(args, " ")>>)
    ELSE web_cmd_echo_write(f, ai, args, IndexOf(args, ">"))

\* WebTerminal.cmd_edit(args)
web_cmd_edit(f, ai, args) ==
    WebFrameOfOne(OpenWrite(f, WebCwd, WebResolve(f, WebCwd, args[1]),
                            Join(Tail(args), " "), Now(f)),
                  ai, "edit")

\* WebTerminal.execute_system_command(command_line)
web_execute_system_command(f, ai, command) ==
    WebFrame(f, "system", command,
             <<IF command \in {"echo", "date", "whoami"} THEN "ok" ELSE "NotAvailable">>,
             <<>>, "", ai, 0, 0, "none")

\* `if natural_cmd: return self.execute_command(natural_cmd)`, else the
\* "I don't understand" reply; p is what parse_natural_language returned
web_resolved(f, p) ==
    WebFrame(f, IF p.cmd # "" THEN "nl" ELSE "unrecognized", "",
             <<IF p.cmd # "" THEN "resolved" ELSE "Unrecognized">>, <<>>,
             p.cmd, p.ai, 1, p.calls, p.status)

\* the `else` branch of WebTerminal.execute_command: classify, resolve and
\* hand the resolved string to a further execute_command, or pass through
web_natural_or_system(f, ai, command_line, command, reply) ==
    IF looks_like_natural_language(command_line)
    THEN web_resolved(f, parse_natural_language(ai, command_line, reply))
    ELSE web_execute_system_command(f, ai, command)

\* the built-in branches of WebTerminal.execute_command match the first token
\* as typed; a name whose argument guard fails falls to the `else` branch
WebIsBuiltinBranch(args) ==
    \/ args[1] \in {"help", "pwd", "ls", "dir", "count", "echo", "clear", "history", "ai"}
    \/ args[1] \in {"mkdir", "touch", "cat", "rm", "del", "rmdir", "edit"} /\ Len(args) > 1

IsNotR(a) == a # "-r"

\* the if / elif chain of WebTerminal.execute_command on args = line.split()
WebBranches(f, ai, command_line, args, reply) ==
    IF ~WebIsBuiltinBranch(args)
    THEN web_natural_or_system(f, ai, command_line, args[1], reply)
    ELSE CASE args[1] = "mkdir" -> WebTargets("web mkdir", "mkdir", f, ai, Tail(args))
           [] args[1] = "touch" -> WebTargets("web touch", "touch", f, ai, Tail(args))
           [] args[1] = "cat" -> WebTargets("web cat", "cat", f, ai, Tail(args))
           [] args[1] \in {"rm", "del"} -> WebTargets("web rm", "rm", f, ai, Tail(args))
           [] args[1] = "rmdir" ->
                  IF InList("-r", args)
                  THEN WebTargets("web rmdir -r", "rmdir -r", f, ai,
                                  SelectSeq(Tail(args), IsNotR))
                  ELSE WebTargets("web rmdir", "rmdir", f, ai, Tail(args))
           [] args[1] = "echo" -> web_cmd_echo(f, ai, Tail(args))
           [] args[1] = "edit" -> web_cmd_edit(f, ai, Tail(args))
           [] OTHER -> WebBuiltin(f, ai, args[1], <<"ok">>, <<>>)

\* WebTerminal.execute_command after the history append
WebDispatch(f, ai, command_line, reply) ==
    WebBranches(f, ai, command_line, Split(command_line), reply)

\* whether the frame for command_line asks the remote service
WebAsksRemote(ai, command_line) ==
    /\ ai
    /\ Strip(command_line) # ""
    /\ ~WebIsBuiltinBranch(Split(command_line))
    /\ looks_like_natural_language(command_line)

\* the state a web frame leaves
WebCommit(command_line, fr, first) ==
    /\ web_history' = Append(web_history, command_line)
    /\ web_appended' = Append(web_appended, command_line)
    /\ fs' = fr.fs
    /\ ai_enabled' = fr.ai
    /\ demoted' = (demoted \/ fr.status = "non200")
    /\ raised' = (fr.status = "exception")
    /\ resolutions' = (IF first THEN 0 ELSE resolutions) + fr.resolved
    /\ remote_calls' = remote_calls + fr.calls
    /\ pending' = fr.natural_cmd
    /\ last' = Record("web", command_line, fr)

\* one call of WebTerminal.execute_command(command_line) on an instance whose
\* ai_enabled is ai: the history append (unbounded), the dispatch, and the
\* resolved command left for the recursive call
WebRun(ai, command_line, reply, first) ==
    IF Strip(command_line) = ""
    THEN /\ last' = NoOp("web", command_line)
         /\ ai_enabled' = ai
         /\ pending' = ""
         /\ UNCHANGED <<fs, web_history, web_appended, demoted, raised, resolutions,
                        remote_calls>>
    ELSE WebCommit(command_line, WebDispatch(fs, ai, command_line, reply), first)

(***************************************************************************)
(* Initial states and the lines submitted.                                 *)
(***************************************************************************)
\* the start directory is empty
LayoutEmpty == (Home :> DirNode) @@ (StartDir :> DirNode)

\* the start directory holds a file f, a directory x with a file in it and
\* an empty directory e
LayoutUsed ==
    LayoutEmpty
        @@ (Append(StartDir, "f") :> FileNode("old", 1))
        @@ (Append(StartDir, "x") :> DirNode)
        @@ (StartDir \o <<"x", "f">> :> FileNode("old", 2))
        @@ (Append(StartDir, "e") :> DirNode)

\* the lines by which a web session, whose work_dir is created empty, gets
\* to LayoutUsed
WebSetupLines == <<"mkdir x e", "echo old > f", "echo old > x/f">>

ConsoleLines ==
    {"cd e", "cd ..", "cd nowhere", "cd f", "cd -",
     "mkdir x n", "rmdir x", "rmdir e", "rmdir ../e", "rm f x nowhere",
     "touch f", "echo hello world > f", "cat f", "mv ../e ../y", "cp f g",
     "pwd", "invalidcommand", " "}

WebLines ==
    {"cd please show me", "show me the files", "delete f",
     "echo hello world > f", "cat f", "rm f x nowhere", "rmdir x", "rmdir e",
     "rmdir -r x", "mkdir x n", "frobnicate", " "}

InitCommon ==
    /\ os_cwd = [path |-> StartDir, deleted |-> FALSE]
    /\ current_directory = StartDir
    /\ prev_directory = Unset
    /\ command_history = <<>>
    /\ appended = <<>>
    /\ demoted = FALSE
    /\ raised = FALSE
    /\ pending = ""
    /\ depth = 0
    /\ resolutions = 0
    /\ remote_calls = 0
    /\ last = NoOp("", "")
    /\ ncmds = 0
    /\ terminal_b = [current_directory |-> StartDir, prev_directory |-> Unset,
                     command_history |-> <<>>]

(***************************************************************************)
(* The console terminal: PythonTerminal() followed by execute_command      *)
(* calls, as run() and the test and demo drivers make them.                *)
(***************************************************************************)
Init ==
    /\ InitCommon
    /\ fs = LayoutUsed
    /\ web_history = <<>>
    /\ web_appended = <<>>
    /\ gemini_api_key = FALSE
    /\ HAS_REQUESTS = FALSE
    /\ ai_enabled = FALSE

ConsoleExecute(command_line) ==
    /\ ncmds < MaxCmds
    /\ ncmds' = ncmds + 1
    /\ ConsoleRun(command_line)
    /\ UNCHANGED <<webVars, terminal_b>>

Next == \E command_line \in ConsoleLines : ConsoleExecute(command_line)

Spec == Init /\ [][Next]_vars

(***************************************************************************)
(* The web terminal: every run of main() constructs a WebTerminal and      *)
(* passes it at most one line; a resolved natural-language line makes      *)
(* execute_command call itself.                                            *)
(***************************************************************************)
WebInit ==
    /\ InitCommon
    /\ fs = LayoutUsed
    /\ web_history = WebSetupLines
    /\ web_appended = WebSetupLines
    /\ gemini_api_key \in BOOLEAN
    /\ HAS_REQUESTS = TRUE
    /\ ai_enabled = setup_gemini_ai(gemini_api_key, HAS_REQUESTS)

\* main(): terminal = WebTerminal(); terminal.execute_command(command_line)
WebMain(command_line) ==
    /\ pending = ""
    /\ ncmds < MaxWebCmds
    /\ ncmds' = ncmds + 1
    /\ depth' = 1
    /\ \E reply \in IF WebAsksRemote(setup_gemini_ai(gemini_api_key, HAS_REQUESTS),
                                     command_line)
                    THEN RemoteOutcomes ELSE {NoReply} :
           WebRun(setup_gemini_ai(gemini_api_key, HAS_REQUESTS), command_line, reply, TRUE)
    /\ UNCHANGED <<consoleVars, terminal_b, gemini_api_key, HAS_REQUESTS>>

\* return self.execute_command(natural_cmd)
WebNested ==
    /\ pending # ""
    /\ depth < MaxDepth
    /\ depth' = depth + 1
    /\ \E reply \in IF WebAsksRemote(ai_enabled, pending) THEN RemoteOutcomes ELSE {NoReply} :
           WebRun(ai_enabled, pending, reply, FALSE)
    /\ UNCHANGED <<consoleVars, terminal_b, gemini_api_key, HAS_REQUESTS, ncmds>>

\* the interpreter's recursion limit ends the chain of calls: RecursionError is
\* raised in the deepest frame, and no further frame is entered
WebRecursionError ==
    /\ pending # ""
    /\ depth = MaxDepth
    /\ pending' = ""
    /\ last' = [last EXCEPT !.route = "RecursionError", !.res = <<"RecursionError">>]
    /\ UNCHANGED <<fs, consoleVars, terminal_b, web_history, web_appended, gemini_api_key,
                   HAS_REQUESTS, ai_enabled, demoted, raised, depth, resolutions,
                   remote_calls, ncmds>>

WebNext ==
    \/ \E command_line \in WebLines : WebMain(command_line)
    \/ WebNested
    \/ WebRecursionError

WebSpec == WebInit /\ [][WebNext]_vars

(***************************************************************************)
(* Both terminals at work on the same directory, with the file commands    *)
(* they share.                                                             *)
(***************************************************************************)
FilesConsoleLines ==
    {"cd e", "mkdir x n", "rmdir x", "rmdir e", "rmdir ../e", "rm f x nowhere"}

FilesWebLines ==
    {"mkdir x n", "rmdir x", "rmdir e", "rmdir -r x", "rm f x nowhere", "del f e"}

FilesInit ==
    /\ InitCommon
    /\ fs = LayoutUsed
    /\ web_history = WebSetupLines
    /\ web_appended = WebSetupLines
    /\ gemini_api_key = TRUE
    /\ HAS_REQUESTS = TRUE
    /\ ai_enabled = TRUE

FilesNext ==
    \/ \E command_line \in FilesConsoleLines : ConsoleExecute(command_line)
    \/ \E command_line \in FilesWebLines : WebMain(command_line)

FilesSpec == FilesInit /\ [][FilesNext]_vars

(***************************************************************************)
(* Both terminals given lines with several targets, a target that fails    *)
(* standing before one that does not.                                      *)
(***************************************************************************)
TargetsConsoleLines ==
    {"mkdir f/a n", "rmdir x e", "rm nowhere f", "rm f f", "touch nowhere/g g f",
     "cat nowhere f x/f"}

TargetsWebLines ==
    {"mkdir f/a n", "rmdir x e", "rmdir -r nowhere x", "rm x f", "touch nowhere/g g f",
     "cat nowhere f x/f"}

TargetsNext ==
    \/ \E command_line \in TargetsConsoleLines : ConsoleExecute(command_line)
    \/ \E command_line \in TargetsWebLines : WebMain(command_line)

TargetsSpec == FilesInit /\ [][TargetsNext]_vars

(***************************************************************************)
(* The console terminal copying and moving: sources that exist or not,     *)
(* destinations that are free names, files or directories.                 *)
(***************************************************************************)
CopyLines ==
    {"cp f g", "mv f g", "cp nowhere g", "mv nowhere f", "cp f x", "mv f x", "mv f e",
     "cp x/f f", "mv x/f f", "cp x y", "mv x y"}

CopyNext == \E command_line \in CopyLines : ConsoleExecute(command_line)

CopySpec == Init /\ [][CopyNext]_vars

(***************************************************************************)
(* The web terminal without an API key, where parse_natural_language is    *)
(* parse_with_fallback_patterns: one line is submitted, and the command it *)
(* resolves to is executed by the nested call.  The lines are the examples *)
(* of the documentation and every line of up to MaxWords words of a        *)
(* vocabulary holding a trigger of each rule and a name that is only       *)
(* quotes.                                                                 *)
(***************************************************************************)
DocumentedLines ==
    {"delete old.txt", "how many files are here", "create a file called test.py",
     "make a folder named project", "write hello world to greeting.txt",
     "show me the files"}

Vocabulary ==
    {"count", "delete", "create", "file", "folder", "named", "''", "write", "to", "show"}

ResolverLines ==
    DocumentedLines
        \cup {Join(ws, " ") : ws \in UNION {[1..n -> Vocabulary] : n \in 1..MaxWords}}
        \cup {"delete file x named y", "create file x named y", "create folder x named y",
              "delete the file named y", "create file model.py", "write hello to g",
              "write a > b to g", "whoami", "date"}

ResolverInit ==
    /\ InitCommon
    /\ fs = LayoutUsed
    /\ web_history = WebSetupLines
    /\ web_appended = WebSetupLines
    /\ gemini_api_key = FALSE
    /\ HAS_REQUESTS = TRUE
    /\ ai_enabled = FALSE

ResolverSubmit(command_line) == ncmds = 0 /\ WebMain(command_line)

ResolverNext ==
    \/ \E command_line \in ResolverLines : ResolverSubmit(command_line)
    \/ WebNested

ResolverSpec == ResolverInit /\ [][ResolverNext]_vars

(***************************************************************************)
(* Both terminals given the lines at the edge of the command surface:      *)
(* empty lines, command names in upper case, commands without operands.    *)
(***************************************************************************)
SurfaceConsoleLines ==
    {"", " ", "MKDIR n", "Cat f", "mkdir", "rmdir", "rm", "touch", "cat", "cp f", "mv",
     "cd e"}

SurfaceWebLines == {"", " ", "MKDIR n", "Cat f", "cat f", "mkdir", "show me the files"}

SurfaceNext ==
    \/ \E command_line \in SurfaceConsoleLines : ConsoleExecute(command_line)
    \/ \E command_line \in SurfaceWebLines : WebMain(command_line)
    \/ WebNested

SurfaceSpec == ResolverInit /\ [][SurfaceNext]_vars

(***************************************************************************)
(* Two PythonTerminal instances in one process, each given lines in any    *)
(* order.  The instances have their own attributes; the process directory  *)
(* that os.chdir sets, and against which the os calls resolve a relative   *)
(* name, is the process's.                                                 *)
(***************************************************************************)
SessionALines == {"cd e", "cd ..", "mkdir n", "pwd"}

SessionBLines == {"cd x", "mkdir n", "touch g", "rm f", "pwd", " "}

\* the state a frame of the second terminal leaves
SessionBCommit(command_line, fr) ==
    /\ terminal_b' = [current_directory |-> fr.cur, prev_directory |-> fr.prev,
                      command_history |->
                          HistoryAppend(terminal_b.command_history, command_line)]
    /\ fs' = fr.fs
    /\ os_cwd' = fr.cwd
    /\ last' = Record("console b", command_line, fr)

\* execute_command(command_line) of the second terminal
SessionBExecute(command_line) ==
    /\ ncmds < MaxCmds
    /\ ncmds' = ncmds + 1
    /\ IF Strip(command_line) = ""
       THEN last' = NoOp("console b", command_line) /\ UNCHANGED <<fs, os_cwd, terminal_b>>
       ELSE SessionBCommit(command_line,
                           ConsoleDispatch(fs, os_cwd, terminal_b.current_directory,
                                           terminal_b.prev_directory, command_line))
    /\ UNCHANGED <<current_directory, prev_directory, command_history, appended, webVars>>

SessionsNext ==
    \/ \E command_line \in SessionALines : ConsoleExecute(command_line)
    \/ \E command_line \in SessionBLines : SessionBExecute(command_line)

SessionsSpec == Init /\ [][SessionsNext]_vars

(***************************************************************************)
(* Long runs of both terminals, for the bound of the history.              *)
(***************************************************************************)
\* the k-th line submitted
HistoryLine(k) == "echo " \o ToString(k)

HistoryConsole ==
    /\ Len(appended) < MaxAppends
    /\ ConsoleRun(HistoryLine(Len(appended) + 1))
    /\ UNCHANGED <<webVars, ncmds, terminal_b>>

HistoryWeb ==
    /\ Len(web_appended) < MaxAppends
    /\ WebRun(setup_gemini_ai(gemini_api_key, HAS_REQUESTS),
              HistoryLine(Len(web_appended) + 1), NoReply, TRUE)
    /\ UNCHANGED <<consoleVars, terminal_b, gemini_api_key, HAS_REQUESTS, depth, ncmds>>

HistoryInit ==
    /\ InitCommon
    /\ fs = LayoutEmpty
    /\ web_history = <<>>
    /\ web_appended = <<>>
    /\ gemini_api_key = TRUE
    /\ HAS_REQUESTS = TRUE
    /\ ai_enabled = TRUE

HistoryNext == HistoryConsole \/ HistoryWeb

HistorySpec == HistoryInit /\ [][HistoryNext]_vars

(***************************************************************************)
(* The console terminal started in an empty directory, moving between      *)
(* directories, some of which are removed while they are recorded.         *)
(***************************************************************************)
CdNext ==
    \E command_line \in {"cd", "cd ~", "cd -", "cd ..", "cd n", "cd nowhere", "cd /home/w",
                         "mkdir n", "rmdir ../w", "rmdir /home"} :
        ConsoleExecute(command_line)

CdSpec == HistoryInit /\ [][CdNext]_vars

(***************************************************************************)
(* The properties checked.  `last` is what the latest call of              *)
(* execute_command left: the terminal, the line, how it was routed, the    *)
(* command run, one result per target and the text printed; in an action   *)
(* formula last' describes the call the step makes.                        *)
(***************************************************************************)
\* the last n elements of s
LastN(s, n) == IF Len(s) <= n THEN s ELSE SubSeq(s, Len(s) - n + 1, Len(s))

AllOk(res) == \A i \in 1..Len(res) : res[i] = "ok"

\* the operands of a line
Operands(line) == Tail(Split(line))

\* the directory the terminal `term` resolves relative names against
CwdOf(term) == IF term = "web" THEN WebCwd ELSE os_cwd

\* every path of f is in g with the same node
Kept(f, g) == \A p \in DOMAIN f : p \in DOMAIN g /\ g[p] = f[p]

\* C1: the history of either terminal holds at most HistoryLimit entries, and
\* they are the most recently appended lines in the order they were appended
C1_HistoryBounded ==
    /\ Len(command_history) <= HistoryLimit
    /\ command_history = LastN(appended, HistoryLimit)
    /\ Len(web_history) <= HistoryLimit
    /\ web_history = LastN(web_appended, HistoryLimit)

\* C2: for one submitted line the web terminal invokes natural-language
\* resolution at most once, whatever the resolver replies
C2_ResolvedAtMostOnce == resolutions <= 1

\* the built-in command names of the command surface
BuiltinNames ==
    {"pwd", "ls", "dir", "cd", "mkdir", "rmdir", "rm", "del", "touch", "cat", "echo",
     "cp", "mv", "count", "history", "help", "clear"}

\* C3: a line whose first token is a built-in command name is never routed
\* to the natural-language resolver, whatever words follow
C3_BuiltinNeverNatural ==
    (last.term = "web" /\ last.route # "noop" /\ Split(last.line)[1] \in BuiltinNames)
        => last.route \notin {"nl", "unrecognized"}

\* the argument cd is called with for a line
CdArgument(line) == IF Operands(line) = <<>> THEN HomeStr ELSE Operands(line)[1]

\* what a cd step must do, target being the absolute path its argument names
CdOutcome(target) ==
    IF IsDirAt(fs, target)
    THEN /\ current_directory' = target
         /\ prev_directory' = current_directory
         /\ last'.res = <<"ok">>
    ELSE /\ current_directory' = current_directory
         /\ prev_directory' = prev_directory
         /\ last'.res = <<"NotFound">>

\* C4: a cd whose target does not exist or is not a directory leaves
\* current_directory and the previous directory as they were and reports
\* not-found; the directory is committed only when the target is a directory
C4_FailedCdChangesNothing ==
    [][(last'.term = "console" /\ last'.cmd = "cd")
           => CdOutcome(cmd_cd_target(current_directory, prev_directory,
                                      CdArgument(last'.line)))]_vars

\* a cd to a name that does not exist, made from a directory entered before
C4_Witness ==
    /\ last.term = "console"
    /\ last.line = "cd nowhere"
    /\ last.res = <<"NotFound">>
    /\ current_directory = Append(StartDir, "e")
    /\ prev_directory = StartDir

\* C5: in every reachable state current_directory names an existing directory
C5_CurrentDirectoryExists == IsDirAt(fs, current_directory)

\* a line `echo <words> > F`
IsEchoRedirect(line) ==
    /\ Len(Split(line)) >= 4
    /\ Split(line)[1] = "echo"
    /\ Split(line)[Len(Split(line)) - 1] = ">"

EchoContent(line) == Join(SubSeq(Split(line), 2, Len(Split(line)) - 2), " ")

EchoFile(line) == Split(line)[Len(Split(line))]

\* C6: after `echo <words> > F`, a following `cat F` on the same terminal
\* returns exactly the words, whatever F held before
C6_EchoCatRoundTrip ==
    [][(/\ last.route = "builtin"
        /\ IsEchoRedirect(last.line)
        /\ last'.term = last.term
        /\ last'.line = "cat " \o EchoFile(last.line))
           => (last'.res = <<"ok">> /\ last'.out = <<EchoContent(last.line)>>)]_vars

\* C7: once the remote service has answered with a non-success status, the
\* session never calls it again
C7_FallbackIsSticky ==
    [][demoted => remote_calls' = remote_calls]_vars

\* what step of rm must do for the target called name
RmTargetOutcome(term, name, result) ==
    IsFileRes(fs, Resolve(term, fs, CwdOf(term), name)) \/ result # "ok"

\* C8: rm never removes a directory: a target that is absent or a directory
\* gets an error, every directory and everything that is not a target stays
\* as it was, and what rm deletes is a regular file
C8_RmNeverRemovesDirectory ==
    [][(last'.cmd = "rm" /\ Operands(last'.line) # <<>>)
           => /\ Kept(fs', fs)
              /\ \A p \in DOMAIN fs : p \notin DOMAIN fs' => fs[p].kind = "file"
              /\ Len(last'.res) = Len(Operands(last'.line))
              /\ \A i \in 1..Len(last'.res) :
                     RmTargetOutcome(last'.term, Operands(last'.line)[i], last'.res[i])]_vars

\* rm of a file, a directory and an absent name: the file is gone, the
\* directory and what it holds are there
C8_Witness ==
    /\ last.term = "console"
    /\ last.line = "rm f x nowhere"
    /\ last.res = <<"ok", "NotFound", "NotFound">>
    /\ Append(StartDir, "f") \notin DOMAIN fs
    /\ IsDirAt(fs, Append(StartDir, "x"))
    /\ IsFileAt(fs, StartDir \o <<"x", "f">>)

\* what a step of rmdir with the one operand that resolves to r must do
RmdirOutcome(r) ==
    IF IsDirRes(fs, r) /\ Children(fs, r.path) # {}
    THEN last'.res = <<"NotEmpty">> /\ fs' = fs
    ELSE IF IsDirRes(fs, r) /\ last'.res = <<"ok">>
    THEN fs' = Without(fs, {r.path})
    ELSE last'.res \notin {<<"ok">>, <<"NotEmpty">>} /\ fs' = fs

\* C9: rmdir without -r of a non-empty directory reports not-empty, which no
\* absent name is answered with, and leaves the directory and its contents
\* intact; only a directory without entries is removed
C9_RmdirNonEmptyRefused ==
    [][(last'.cmd = "rmdir" /\ Len(Operands(last'.line)) = 1)
           => RmdirOutcome(Resolve(last'.term, fs, CwdOf(last'.term),
                                   Operands(last'.line)[1]))]_vars

\* rmdir of the directory x that holds a file
C9_Witness ==
    /\ last.term = "web"
    /\ last.line = "rmdir x"
    /\ last.res = <<"NotEmpty">>
    /\ IsFileAt(fs, StartDir \o <<"x", "f">>)

\* C10: a mkdir line that succeeded and is issued again at once on the same
\* terminal succeeds again and leaves the filesystem as it was
C10_MkdirIdempotent ==
    [][(/\ last.cmd = "mkdir"
        /\ AllOk(last.res)
        /\ last'.term = last.term
        /\ last'.line = last.line)
           => (last'.cmd = "mkdir" /\ AllOk(last'.res) /\ fs' = fs)]_vars

\* mkdir of an existing and a new directory, issued twice in a row
C10_Witness ==
    /\ last.term = "console"
    /\ last.line = "mkdir x n"
    /\ last.res = <<"ok", "ok">>
    /\ Len(appended) >= 2
    /\ appended[Len(appended) - 1] = "mkdir x n"
    /\ IsDirAt(fs, Append(StartDir, "n"))
    /\ IsFileAt(fs, StartDir \o <<"x", "f">>)

\* the operation a multi-target command of a terminal performs on each target
TargetOp(term, cmd) == IF term = "web" THEN "web " \o cmd ELSE cmd

\* the outcome of the k-th target of names, met on what the k - 1 targets
\* before it left of the filesystem f
RECURSIVE KthTarget(_, _, _, _, _)
KthTarget(op, f, cwd, names, k) ==
    IF k = 1 THEN Target(op, f, cwd, names[1])
    ELSE Target(op, KthTarget(op, f, cwd, names, k - 1).fs,
                KthTarget(op, f, cwd, names, k - 1).cwd, names[k])

TouchOutcome(r) ==
    IF IsFileRes(fs, r)
    THEN /\ IsFileAt(fs', r.path)
         /\ fs'[r.path].content = fs[r.path].content
         /\ fs'[r.path].mtime > fs[r.path].mtime
    ELSE IsFileAt(fs', r.path) /\ fs'[r.path].content = ""

\* the same without the modification time
TouchKeepsContent(r) ==
    IF IsFileRes(fs, r)
    THEN IsFileAt(fs', r.path) /\ fs'[r.path].content = fs[r.path].content
    ELSE IsFileAt(fs', r.path) /\ fs'[r.path].content = ""

\* C12: touch creates an empty file for an absent name; an existing file
\* keeps its content and gets a modification time later than the one it had
C12_TouchUpdatesMtime ==
    [][(last'.cmd = "touch" /\ last'.route = "builtin")
           => \A i \in 1..Len(last'.res) :
                  last'.res[i] = "ok"
                      => TouchOutcome(Resolve(last'.term, fs, CwdOf(last'.term),
                                              Operands(last'.line)[i]))]_vars

\* the part of C12 that is about existence and content only
C12_TouchCreatesAndKeepsContent ==
    [][(last'.cmd = "touch" /\ last'.route = "builtin")
           => \A i \in 1..Len(last'.res) :
                  last'.res[i] = "ok"
                      => TouchKeepsContent(Resolve(last'.term, fs, CwdOf(last'.term),
                                                   Operands(last'.line)[i]))]_vars

\* where cp or mv puts the source called name when the destination resolves
\* to rd: at rd, or under the source's own name inside the directory rd
DestinationOf(rd, name) ==
    IF IsDirRes(fs, rd) THEN Append(rd.path, LastComp(name)) ELSE rd.path

\* what a cp or mv step of a regular file at src must leave at src and dest
CopiedOrMoved(cmd, src, dest) ==
    /\ last'.res = <<"ok">>
    /\ IsFileAt(fs', dest)
    /\ fs'[dest].content = fs[src].content
    /\ IF cmd = "cp" THEN IsFileAt(fs', src) /\ fs'[src].content = fs[src].content
       ELSE src \notin DOMAIN fs'

\* what a cp or mv step must do, rs and rd being what its source and its
\* destination resolve to: fail and change nothing when the source is absent;
\* copy or move a regular file to a destination that exists (overwriting it)
\* or that is a free name in an existing directory
CopyMoveOutcome(cmd, rs, rd, name) ==
    IF rs.err # "" \/ ~rs.live THEN last'.res # <<"ok">> /\ fs' = fs
    ELSE (/\ IsFileRes(fs, rs)
          /\ rd.err = ""
          /\ rd.live \/ ~rd.dot
          /\ DestinationOf(rd, name) # rs.path)
             => CopiedOrMoved(cmd, rs.path, DestinationOf(rd, name))

\* C13: cp and mv fail and change nothing when the source is absent; when it
\* exists, cp leaves source and destination with the source's content, mv
\* leaves the destination with it and no source; a destination that exists
\* is overwritten and is no cause of failure
C13_CopyMoveOverwrite ==
    [][(last'.cmd \in {"cp", "mv"} /\ Len(Operands(last'.line)) >= 2)
           => CopyMoveOutcome(last'.cmd,
                              ConsoleResolve(fs, os_cwd, Operands(last'.line)[1]),
                              ConsoleResolve(fs, os_cwd, Operands(last'.line)[2]),
                              Operands(last'.line)[1])]_vars

\* the lines the documentation gives and the commands it says they resolve to
Documented ==
    {<<"delete old.txt", "rm old.txt">>,
     <<"how many files are here", "count">>,
     <<"create a file called test.py", "touch test.py">>,
     <<"make a folder named project", "mkdir project">>,
     <<"write hello world to greeting.txt", "echo hello world > greeting.txt">>,
     <<"show me the files", "ls">>}

\* the web terminal has just dispatched a submitted line
Submitted == last.term = "web" /\ depth = 1 /\ last.route # "noop"

\* C14: each of the six documented lines is classified as natural language
\* by the dispatcher and resolved by the deterministic resolver to exactly
\* the documented command
C14_DocumentedLinesResolve ==
    \A d \in Documented :
        (Submitted /\ last.line = d[1]) => (last.route = "nl" /\ pending = d[2])

\* the write example: resolved to the redirect of its content to its file
C14_Witness ==
    /\ Submitted
    /\ last.line = "write hello world to greeting.txt"
    /\ last.route = "nl"
    /\ pending = "echo hello world > greeting.txt"

\* C15: a line that is empty or only whitespace is a no-op on either
\* terminal: the history, the directories, the filesystem and the resolver's
\* strategy state (ai_enabled as the instance was set up, the demotion) stay
\* as they were, and no resolver is called
C15_EmptyLineNoOp ==
    [][Strip(last'.line) = ""
           => /\ last'.route = "noop"
              /\ UNCHANGED <<fs, os_cwd, current_directory, prev_directory,
                             command_history, appended, web_history, web_appended>>
              /\ UNCHANGED <<demoted, resolutions, remote_calls>>
              /\ IF last'.term = "web"
                 THEN /\ pending' = ""
                      /\ ai_enabled' = setup_gemini_ai(gemini_api_key, HAS_REQUESTS)
                 ELSE UNCHANGED <<pending, ai_enabled>>]_vars

\* a blank line given to the console after a cd: nothing but the cd is in
\* the history, and the directory is the one entered
C15_Witness ==
    /\ last.term = "console"
    /\ last.line = " "
    /\ last.route = "noop"
    /\ command_history = <<"cd e">>
    /\ current_directory = Append(StartDir, "e")

\* the line with its command name in lower case, the arguments as they are
LowerName(line) == Join(<<Lower(Split(line)[1])>> \o Tail(Split(line)), " ")

\* what `last` and the state show of a console frame
ConsoleSame(fr) ==
    /\ fs' = fr.fs
    /\ current_directory' = fr.cur
    /\ last'.route = fr.route
    /\ last'.cmd = fr.cmd
    /\ last'.res = fr.res
    /\ last'.out = fr.out

\* what `last` and the state show of a web frame
WebSame(fr) ==
    /\ fs' = fr.fs
    /\ last'.route = fr.route
    /\ last'.cmd = fr.cmd
    /\ last'.res = fr.res
    /\ last'.out = fr.out

\* C16 for the console terminal
C16_ConsoleCaseInsensitive ==
    [][(/\ last'.term = "console"
        /\ Strip(last'.line) # ""
        /\ Lower(Split(last'.line)[1]) \in BuiltinNames)
           => ConsoleSame(ConsoleDispatch(fs, os_cwd, current_directory, prev_directory,
                                          LowerName(last'.line)))]_vars

\* C16: on both terminals a built-in command name in any spelling of upper
\* and lower case runs the handler its lower-case spelling runs, with the
\* same arguments in their own case, and so has the same outcome
C16_NamesCaseInsensitive ==
    [][(/\ Strip(last'.line) # ""
        /\ Lower(Split(last'.line)[1]) \in BuiltinNames
        /\ depth' <= 1)
           => IF last'.term = "console"
              THEN ConsoleSame(ConsoleDispatch(fs, os_cwd, current_directory,
                                               prev_directory, LowerName(last'.line)))
              ELSE WebIsBuiltinBranch(Split(LowerName(last'.line)))
                       => WebSame(WebDispatch(fs, setup_gemini_ai(gemini_api_key,
                                                                  HAS_REQUESTS),
                                              LowerName(last'.line), NoReply))]_vars

\* the commands that require operands, and how many
RequiredOperands(cmd) == IF cmd \in {"cp", "mv"} THEN 2 ELSE 1

\* C17: a built-in given fewer operands than it requires (mkdir, rmdir, rm,
\* touch, cat: one; cp, mv: two) reports that command's missing operand,
\* changes neither the filesystem nor current_directory, and is routed
\* neither to the natural-language resolver nor to the system passthrough
C17_MissingOperandsRefused ==
    [][(/\ Strip(last'.line) # ""
        /\ Split(last'.line)[1] \in {"mkdir", "rmdir", "rm", "touch", "cat", "cp", "mv"}
        /\ Len(Operands(last'.line)) < RequiredOperands(Split(last'.line)[1]))
           => /\ last'.route = "builtin"
              /\ last'.cmd = Split(last'.line)[1]
              /\ last'.res = <<"MissingOperand">>
              /\ fs' = fs
              /\ current_directory' = current_directory]_vars

\* C17 for the console terminal
C17_ConsoleMissingOperands ==
    [][(/\ last'.term = "console"
        /\ Strip(last'.line) # ""
        /\ Split(last'.line)[1] \in {"mkdir", "rmdir", "rm", "touch", "cat", "cp", "mv"}
        /\ Len(Operands(last'.line)) < RequiredOperands(Split(last'.line)[1]))
           => /\ last'.route = "builtin"
              /\ last'.cmd = Split(last'.line)[1]
              /\ last'.res = <<"MissingOperand">>
              /\ fs' = fs
              /\ current_directory' = current_directory]_vars

\* the directory against which the os calls of a console handler resolve a
\* relative name, whichever terminal the handler belongs to
ResolutionBase == os_cwd

\* C18: a command executed on the terminal A changes neither the
\* current_directory of the terminal B nor the directory against which B's
\* relative names are resolved
C18_SessionsIndependent ==
    [][last'.term = "console"
           => /\ terminal_b'.current_directory = terminal_b.current_directory
              /\ ResolutionBase' = ResolutionBase]_vars

\* what B shows of the divergence: a mkdir of a relative name on B makes the
\* directory inside B's own current_directory
C18_RelativeToOwnDirectory ==
    [][(last'.term = "console b" /\ last'.line = "mkdir n" /\ last'.res = <<"ok">>)
           => IsDirAt(fs', Append(terminal_b.current_directory, "n"))]_vars

\* the triggers of the six rules, on the line in lower case
TwoWordMatch(line) ==
    /\ Len(Split(line)) = 2
    /\ Lower(Split(line)[1]) \in {"delete", "remove", "del", "create", "make", "mkdir", "rmdir"}

CountMatch(line) ==
    AnyIn(<<"count", "how many", "number of files", "files count">>, Strip(Lower(line)))

DeleteMatch(line) == AnyIn(<<"delete", "remove", "del">>, Strip(Lower(line)))

CreateMatch(line) ==
    /\ AnyIn(<<"create", "make">>, Strip(Lower(line)))
    /\ AnyIn(<<"file", "folder", "directory">>, Strip(Lower(line)))

\* the write rule matches fully when it finds the file to write to
WriteMatch(line) ==
    /\ Contains(Strip(Lower(line)), "write")
    /\ AnyIn(<<"to", "in">>, Strip(Lower(line)))
    /\ WriteRule(Split(line)) # ""

ListMatch(line) ==
    AnyIn(<<"show", "list", "what files", "see files", "display files", "what's here",
            "what is here", "contents">>, Strip(Lower(line)))

\* the first rule, in the order of the table, that matches the line
EarliestRule(line) ==
    IF TwoWordMatch(line) THEN "two-word"
    ELSE IF CountMatch(line) THEN "counting"
    ELSE IF DeleteMatch(line) THEN "deletion"
    ELSE IF CreateMatch(line) THEN "creation"
    ELSE IF WriteMatch(line) THEN "write"
    ELSE IF ListMatch(line) THEN "listing"
    ELSE "none"

\* the command cmd is one the rule gives for the line
ResultOf(rule, line, cmd) ==
    CASE rule = "two-word" -> cmd = TwoWordRule(Split(line))
      [] rule = "counting" -> cmd = "count"
      [] rule = "deletion" -> StartsWith(cmd, "rm ") \/ StartsWith(cmd, "rmdir ")
      [] rule = "creation" -> StartsWith(cmd, "touch ") \/ StartsWith(cmd, "mkdir ")
      [] rule = "write" -> cmd = WriteRule(Split(line))
      [] rule = "listing" -> cmd = "ls"
      [] rule = "none" -> cmd = ""

\* C19: the deterministic resolver applies its rules in the order two-word
\* imperative, counting, deletion, creation, write-to-file, listing, and the
\* command it returns is that of the earliest rule that matches the line,
\* whatever triggers of later rules the line holds
C19_EarliestRuleWins ==
    (Submitted /\ last.route \in {"nl", "unrecognized"})
        => ResultOf(EarliestRule(last.line), last.line, pending)

\* a line of three words with a deletion verb, a counting phrase and the
\* word file: resolved to count
C19_Witness ==
    /\ Submitted
    /\ last.line = "delete count file"
    /\ last.route = "nl"
    /\ pending = "count"

\* C20: every rm, rmdir, touch or mkdir command the deterministic resolver
\* returns carries a target that is not empty
C20_TargetNeverBlank ==
    (Submitted /\ last.route = "nl"
        /\ Split(pending)[1] \in {"rm", "rmdir", "touch", "mkdir"})
        => Len(Split(pending)) >= 2

\* C20 for the creation rules, which have the default
C20_CreationTargetNeverBlank ==
    (Submitted /\ last.route = "nl" /\ Split(pending)[1] \in {"touch", "mkdir"})
        => Len(Split(pending)) >= 2

\* the positions of the line at which 'named' or 'called' introduces a name
NamedAt(line) ==
    {i \in 1..(Len(Split(line)) - 1) : Lower(Split(line)[i]) \in {"named", "called"}}

\* the name X of the first 'named X' or 'called X' of the line
NamedArg(line) == Unquote(Split(line)[Min(NamedAt(line)) + 1])

\* the target of a resolved command, without the extension a touch may add
IsTarget(cmd, name) ==
    /\ Len(Split(cmd)) = 2
    /\ Split(cmd)[2] = name \/ StartsWith(Split(cmd)[2], name \o ".")

\* C21: in the creation and deletion rules a name introduced by 'named' or
\* 'called' is the target of the command, wherever a 'file', 'folder' or
\* 'directory' keyword followed by another word stands in the line
C21_NamedTakesPriority ==
    (/\ Submitted
     /\ last.route = "nl"
     /\ EarliestRule(last.line) \in {"deletion", "creation"}
     /\ NamedAt(last.line) # {}
     /\ NamedArg(last.line) # "")
        => IsTarget(pending, NamedArg(last.line))


\* C22: a request to the remote resolver that raises an exception (timeout,
\* transport failure) triggers the sticky fallback: the frame in which it is
\* raised leaves ai_enabled false, and the frame that follows makes no
\* request.
C22_ExceptionTriggersFallback ==
    [][/\ (raised' /\ web_appended' # web_appended) => ~ai_enabled'
       /\ raised => remote_calls' = remote_calls]_vars

\* C23: exactly one strategy is consulted for a natural-language line.  A
\* frame entered with the remote strategy active makes one request and its
\* result is what the reply carries: when the request fails, or the reply is
\* empty, the line ends unrecognized although the deterministic rules would
\* resolve it.  A frame entered without the remote strategy (no key at
\* startup, or ai_enabled cleared) makes no request and its result is that of
\* the deterministic rules.
C23_OneStrategyPerLine ==
    [][(web_appended' # web_appended /\ last'.route \in {"nl", "unrecognized"})
           => IF (IF depth' = 1 THEN setup_gemini_ai(gemini_api_key, HAS_REQUESTS)
                  ELSE ai_enabled)
              THEN /\ remote_calls' = remote_calls + 1
                   /\ pending' \in {Strip(r.text) : r \in RemoteOutcomes}
                   /\ (raised' \/ demoted' # demoted) => pending' = ""
                   /\ pending' = "" <=> last'.route = "unrecognized"
              ELSE /\ remote_calls' = remote_calls
                   /\ pending' = parse_with_fallback_patterns(last'.line)]_vars

\* the request for a line the deterministic rules resolve has raised, and the
\* line ended unrecognized
C23_Witness ==
    /\ last.term = "web"
    /\ last.line = "delete f"
    /\ parse_with_fallback_patterns(last.line) = "rm f"
    /\ last.route = "unrecognized"
    /\ raised
    /\ remote_calls = 1
    /\ pending = ""

\* the previous command was a successful cd, made from the directory that
\* prev_directory now records
AfterCd == last.term = "console" /\ last.cmd = "cd" /\ last.res = <<"ok">>

\* the previous command was a successful cd to a direct child name
AfterCdChild ==
    /\ AfterCd
    /\ Len(Operands(last.line)) = 1
    /\ current_directory = Append(prev_directory, Operands(last.line)[1])

\* cd goes to target and records the directory left, or, target not being a
\* directory, is refused and changes nothing
GoesTo(target) ==
    IF IsDirAt(fs, target)
    THEN current_directory' = target /\ prev_directory' = current_directory
    ELSE current_directory' = current_directory /\ prev_directory' = prev_directory

LowerWords(line) == {Lower(Split(line)[i]) : i \in 1..Len(Split(line))}

\* C25: the deterministic resolver emits rm or rmdir only for a line in which
\* delete, remove or del occurs as a whitespace-separated word
C25_RemovalOnlyForDeletionWords ==
    (/\ Submitted
     /\ last.route = "nl"
     /\ Split(pending)[1] \in {"rm", "rmdir"})
        => LowerWords(last.line) \cap {"delete", "remove", "del"} # {}

\* C26: under the deterministic strategy the command string a line is
\* resolved to is executed by a built-in branch when it re-enters
\* execute_command: it is not sent to the system passthrough and not
\* classified as natural language again
C26_ResolvedRunsBuiltin ==
    (last.term = "web" /\ depth >= 2 /\ ~ai_enabled) => last.route = "builtin"

\* C27: each non-empty line submitted adds exactly one entry to the history
\* of its terminal, the line as typed; the re-dispatch of the command a
\* natural-language line is resolved to adds none
C27_OneEntryPerLine ==
    [][/\ (ncmds' # ncmds /\ last'.route # "noop" /\ last'.term = "console")
              => appended' = Append(appended, last'.line)
       /\ (ncmds' # ncmds /\ last'.route # "noop" /\ last'.term = "web")
              => web_appended' = Append(web_appended, last'.line)
       /\ (depth' >= 2 /\ depth' # depth) => web_appended' = web_appended]_vars

\* current_directory names the directory the process is in
InProcessDirectory(cur, cwd) == cur = cwd.path /\ ~cwd.deleted

\* C28: in the console terminal, when current_directory is the process
\* working directory before execute_command, it is so after it
C28_CurrentDirectoryIsProcessDirectory ==
    [][(last'.term = "console" /\ InProcessDirectory(current_directory, os_cwd))
           => InProcessDirectory(current_directory', os_cwd')]_vars

\* C29: a line whose first token is on the passthrough allow-list (echo,
\* date, whoami) and that no built-in branch handles reaches
\* execute_system_command, which runs it; it is not answered by the
\* natural-language classifier
C29_AllowListedReachPassthrough ==
    (/\ Submitted
     /\ Split(last.line)[1] \in {"echo", "date", "whoami"}
     /\ last.route # "builtin")
        => (last.route = "system" /\ last.res = <<"ok">>)

\* the line is `write w1 ... wn to F`, n >= 1, no wi being `to` or `in` and
\* no earlier rule matching
WriteLine(line) ==
    /\ Len(Split(line)) >= 4
    /\ Lower(Split(line)[1]) = "write"
    /\ Split(line)[Len(Split(line)) - 1] = "to"
    /\ \A i \in 2..(Len(Split(line)) - 2) : Lower(Split(line)[i]) \notin {"to", "in"}
    /\ EarliestRule(line) = "write"

WriteContent(line) == Join(SubSeq(Split(line), 2, Len(Split(line)) - 2), " ")
WriteFile(line) == Append(StartDir, Split(line)[Len(Split(line))])

\* C30: under the deterministic strategy, dispatching `write w1 ... wn to F`
\* leaves file F of the working directory holding exactly `w1 ... wn`, and no
\* other file is created or modified, whatever the content words are
C30_WriteEndToEnd ==
    [][(Submitted /\ last.route = "nl" /\ WriteLine(last.line) /\ depth' = 2)
           => /\ IsFileAt(fs', WriteFile(last.line))
              /\ fs'[WriteFile(last.line)].content = WriteContent(last.line)
              /\ \A p \in (DOMAIN fs \cup DOMAIN fs') \ {WriteFile(last.line)} :
                     p \in DOMAIN fs /\ p \in DOMAIN fs' /\ fs'[p] = fs[p]]_vars

====
